---------------------------- MODULE Spec2Model ----------------------------
(***************************************************************************)
(* State-machine model of the Hangman engine in                            *)
(* src/src/hangman_game/main.py: GameState, HangmanEngine.__init__,        *)
(* HangmanEngine.new_game and HangmanEngine.guess.                         *)
(*                                                                         *)
(* A Python str is modelled as a sequence of characters; a character is a  *)
(* token with its Unicode class (alphabetic, whitespace) and its lowercase *)
(* mapping.  An optional value (float | None) is the empty sequence for    *)
(* None and <<t>> for the value t.  time.time() reads the wall clock,      *)
(* which may be set back: a reading is any element of Times.               *)
(***************************************************************************)
EXTENDS Integers, Sequences, FiniteSets, TLC

(***************************************************************************)
(* Bounds of the model.                                                    *)
(***************************************************************************)
\* longest word list handed to the constructor
MaxWords == 2
\* largest mistake budget handed to the constructor (smallest is -1)
MaxBudget == 2

(***************************************************************************)
(* Characters and the str methods the engine uses.                         *)
(***************************************************************************)
\* lowercase letters
LowerLetters ==
    { "a", "b", "c", "d", "e", "f", "g", "h", "i", "k", "l", "m", "n",
      "o", "p", "r", "s", "t", "u", "v", "w", "x", "y", "z" }

\* uppercase letters whose lowercase form is one letter
UpperLetters == {"A", "B", "X"}

\* letters without case (U+4E2D, a CJK ideograph): alphabetic, and str.lower
\* leaves them as they are
CaselessLetters == {"U4E2D"}

\* str.isalpha on one character
IsAlphaChar(c) ==
    c \in LowerLetters \cup UpperLetters \cup CaselessLetters \cup {"U0130"}

\* the characters str.strip removes
IsSpaceChar(c) == c = " "

\* str.lower on one character: the result is a string, "U0130" (capital I
\* with dot) becomes "i" followed by the combining dot U+0307
LowerChar(c) ==
    CASE c = "A" -> <<"a">>
      [] c = "B" -> <<"b">>
      [] c = "X" -> <<"x">>
      [] c = "U0130" -> <<"i", "U0307">>
      [] OTHER -> <<c>>

RECURSIVE lower(_)
\* str.lower
lower(s) == IF s = <<>> THEN <<>> ELSE LowerChar(Head(s)) \o lower(Tail(s))

RECURSIVE lstrip(_)
\* leading whitespace removed
lstrip(s) ==
    IF s # <<>> /\ IsSpaceChar(Head(s)) THEN lstrip(Tail(s)) ELSE s

RECURSIVE rstrip(_)
\* trailing whitespace removed
rstrip(s) ==
    IF s # <<>> /\ IsSpaceChar(s[Len(s)])
    THEN rstrip(SubSeq(s, 1, Len(s) - 1))
    ELSE s

\* str.strip
strip(s) == rstrip(lstrip(s))

\* str.isalpha: non-empty and every character alphabetic
isalpha(s) == s # <<>> /\ \A i \in 1..Len(s) : IsAlphaChar(s[i])

\* Python truth value of a str
Truthy(s) == s # <<>>

\* sub in s, for two strings
Contains(s, sub) ==
    \E i \in 1..(Len(s) - Len(sub) + 1) : SubSeq(s, i, i + Len(sub) - 1) = sub

\* all sequences over S of length 0..n
SeqsUpTo(S, n) == UNION {[1..k -> S] : k \in 0..n}

\* the elements of a sequence
Range(s) == {s[i] : i \in DOMAIN s}

(***************************************************************************)
(* Inputs.                                                                 *)
(***************************************************************************)
\* candidate words: empty, blank, with a digit, with an inner blank,
\* U+0130 (not alphabetic once lowercased), and two that pass the filter
RawWords ==
    { <<>>, <<" ">>, <<"a", "1">>, <<"a", " ", "b">>, <<"U0130">>,
      <<"a">>, <<" ", "B", "a", "b">> }

\* the word lists handed to the constructor
WordLists == SeqsUpTo(RawWords, MaxWords)

\* the budgets handed to the constructor
Budgets == (-1)..MaxBudget

\* the raw guesses handed to guess: empty, blank, letters in both cases,
\* a letter without case, letters inside blanks, a digit, two characters,
\* U+0130
RawInputs ==
    { <<>>, <<" ">>, <<"a">>, <<"b">>, <<"x">>, <<"U4E2D">>, <<"A">>,
      <<" ", "b", " ">>, <<" ", "X">>, <<"1">>, <<"a", "b">>, <<"1", "2">>,
      <<"U0130">> }

\* _DEFAULT_WORDS
DefaultWords ==
    << <<"p", "y", "t", "h", "o", "n">>,
      <<"v", "a", "r", "i", "a", "b", "l", "e">>,
      <<"f", "u", "n", "c", "t", "i", "o", "n">>,
      <<"a", "l", "g", "o", "r", "i", "t", "h", "m">>,
      <<"o", "p", "t", "i", "m", "i", "z", "a", "t", "i", "o", "n">>,
      <<"n", "e", "t", "w", "o", "r", "k">>,
      <<"m", "a", "t", "r", "i", "x">>,
      <<"i", "t", "e", "r", "a", "t", "o", "r">>,
      <<"p", "a", "c", "k", "a", "g", "e">>,
      <<"g", "e", "n", "e", "r", "a", "t", "o", "r">>,
      <<"c", "o", "m", "p", "u", "t", "a", "t", "i", "o", "n">>,
      <<"n", "o", "t", "e", "b", "o", "o", "k">>,
      <<"r", "e", "s", "e", "a", "r", "c", "h">>,
      <<"d", "a", "t", "a", "s", "t", "r", "u", "c", "t", "u", "r", "e">>,
      <<"r", "e", "c", "u", "r", "s", "i", "o", "n">>,
      <<"s", "c", "h", "e", "d", "u", "l", "i", "n", "g">>,
      <<"f", "o", "g">>,
      <<"c", "l", "o", "u", "d">>,
      <<"b", "y", "t", "e", "c", "o", "d", "e">>,
      <<"p", "r", "o", "t", "o", "c", "o", "l">> >>

\* the words argument of play: None (the empty sequence, falsy like an
\* empty list) or a word list
PlayWordArgs == WordLists

\* the lines input() returns in play: the raw guesses and one more letter
PlayLines == RawInputs \cup {<<"y">>}

\* the readings of time.time(): two instants, in either order
Times == {1, 2}

\* float | None
None == <<>>

(***************************************************************************)
(* GameState and its properties.                                           *)
(***************************************************************************)
\* GameState(secret=..., max_mistakes=...) with the dataclass defaults
GameState(secret, max_mistakes, t) ==
    [secret |-> secret, max_mistakes |-> max_mistakes, guessed |-> {},
     mistakes |-> 0, started_at |-> t, ended_at |-> None]

\* str.join: the strings of `parts` with `sep` between neighbours
RECURSIVE Join(_, _)
Join(sep, parts) ==
    IF parts = <<>> THEN <<>>
    ELSE IF Len(parts) = 1 THEN parts[1]
    ELSE parts[1] \o sep \o Join(sep, Tail(parts))

\* mutant of MaskChar: the test negated
MaskChar_Inverted(st, i) ==
    IF <<st.secret[i]>> \notin st.guessed THEN <<st.secret[i]>> ELSE <<"_">>

\* ch if ch in self.guessed else "_", for the i-th character of the secret
MaskChar(st, i) ==
    IF <<st.secret[i]>> \in st.guessed THEN <<st.secret[i]>> ELSE <<"_">>

\* GameState.masked
masked(st) == Join(<<" ">>, [i \in 1..Len(st.secret) |-> MaskChar(st, i)])

\* s.replace(" ", ""), as the test strips the separators
Unspaced(s) == SelectSeq(s, LAMBDA c : c # " ")

\* mutant of wrong_letters: the `not` left out
wrong_letters_Right(st) == {g \in st.guessed : Contains(st.secret, g)}

wrong_letters(st) == {g \in st.guessed : ~Contains(st.secret, g)}

remaining(st) == st.max_mistakes - st.mistakes

\* mutant of won: any() for all()
won_Any(st) == \E i \in 1..Len(st.secret) : <<st.secret[i]>> \in st.guessed

won(st) == \A i \in 1..Len(st.secret) : <<st.secret[i]>> \in st.guessed

\* mutant of lost: strict comparison
lost_Strict(st) == st.mistakes > st.max_mistakes

lost(st) == st.mistakes >= st.max_mistakes

\* mutant of finished: the loss left out
finished_WonOnly(st) == won(st)

finished(st) == won(st) \/ lost(st)

(***************************************************************************)
(* HangmanEngine.                                                          *)
(***************************************************************************)
\* vocab = [w.strip().lower() for w in words if w and w.strip()]
Vocab(words) ==
    LET kept == SelectSeq(words, LAMBDA w : Truthy(w) /\ Truthy(strip(w)))
    IN  [i \in 1..Len(kept) |-> lower(strip(kept[i]))]

\* mutant of AlphaWords: the isalpha filter left out
AlphaWords_Unfiltered(vocab) == vocab

\* self._words = [w for w in vocab if w.isalpha()]
AlphaWords(vocab) == SelectSeq(vocab, isalpha)

\* mutant of CoerceBudget: max(1, ...) left out
CoerceBudget_None(max_mistakes) == max_mistakes

\* self._max_mistakes = max(1, int(max_mistakes))
CoerceBudget(max_mistakes) == IF max_mistakes > 1 THEN max_mistakes ELSE 1

\* no engine object
NoEngine == [exists |-> FALSE, _words |-> <<>>, _max_mistakes |-> 0]

\* the exception each failing check of the constructor raises
EmptyListError == "ValueError"

NoAlphaWordError == "ValueError"

\* mutant of EngineInit: the second check (no alphabetic word) left out
EngineInit_NoAlphaCheck(words, max_mistakes) ==
    LET vocab == Vocab(words)
    IN  IF vocab = <<>>
        THEN [engine |-> NoEngine, raised |-> EmptyListError]
        ELSE [engine |-> [exists |-> TRUE, _words |-> AlphaWords(vocab),
                          _max_mistakes |-> CoerceBudget(max_mistakes)],
              raised |-> "None"]

\* HangmanEngine(words, max_mistakes): the object built, or the exception
EngineInit(words, max_mistakes) ==
    LET vocab == Vocab(words)
        ws == AlphaWords(vocab)
    IN  IF vocab = <<>>
        THEN [engine |-> NoEngine, raised |-> EmptyListError]
        ELSE IF ws = <<>>
        THEN [engine |-> NoEngine, raised |-> NoAlphaWordError]
        ELSE [engine |-> [exists |-> TRUE, _words |-> ws,
                          _max_mistakes |-> CoerceBudget(max_mistakes)],
              raised |-> "None"]

\* mutant of IsTerminal: only a won game is treated as over
IsTerminal_WonOnly(st) == won(st)

\* the guard of guess: a finished game is returned as it is
IsTerminal(st) == finished(st)

\* mutant of Normalize: lower() left out
Normalize_NoLower(raw) == strip(raw)

\* letter = (raw or "").strip().lower(); a raw of None reads as "", the
\* empty sequence
Normalize(raw) == lower(strip(raw))

\* mutant of IsSingleLetter: the isalpha test left out
IsSingleLetter_AnyChar(letter) == Len(letter) = 1

\* len(letter) == 1 and letter.isalpha()
IsSingleLetter(letter) == Len(letter) = 1 /\ isalpha(letter)

\* mutant of IsRepeat: the repeat test left out
IsRepeat_Never(st, letter) == FALSE

\* letter in state.guessed
IsRepeat(st, letter) == letter \in st.guessed

\* mutant of AddLetter: a fresh set instead of a copy of state.guessed
AddLetter_Fresh(guessed, letter) == {letter}

\* mutant of AddLetter: the add left out
AddLetter_Dropped(guessed, letter) == guessed

\* guessed = set(state.guessed); guessed.add(letter)
AddLetter(guessed, letter) == guessed \cup {letter}

\* mutant of NextMistakes: the parentheses left out, which Python reads as
\* (state.mistakes + 0) if letter in state.secret else 1
NextMistakes_Precedence(st, letter) ==
    IF Contains(st.secret, letter) THEN st.mistakes + 0 ELSE 1

\* mutant of NextMistakes: the two branches swapped
NextMistakes_Inverted(st, letter) ==
    st.mistakes + (IF Contains(st.secret, letter) THEN 1 ELSE 0)

\* mutant of NextMistakes: every accepted guess counted as a mistake
NextMistakes_Always(st, letter) == st.mistakes + 1

\* mistakes = state.mistakes + (0 if letter in state.secret else 1)
NextMistakes(st, letter) ==
    st.mistakes + (IF Contains(st.secret, letter) THEN 0 ELSE 1)

\* mutant of NextEndedAt: the win left out of the condition
NextEndedAt_LossOnly(st, guessed, mistakes, t) ==
    IF mistakes >= st.max_mistakes THEN <<t>> ELSE None

\* ended_at = time.time() if (mistakes >= max or all(...)) else None
NextEndedAt(st, guessed, mistakes, t) ==
    IF mistakes >= st.max_mistakes
       \/ \A i \in 1..Len(st.secret) : <<st.secret[i]>> \in guessed
    THEN <<t>>
    ELSE None

\* HangmanEngine.guess(state, raw), the clock reading t at the call
guess(st, raw, t) ==
    IF IsTerminal(st) THEN st
    ELSE LET letter == Normalize(raw)
         IN  IF ~IsSingleLetter(letter) THEN st
             ELSE IF IsRepeat(st, letter) THEN st
             ELSE LET guessed == AddLetter(st.guessed, letter)
                      mistakes == NextMistakes(st, letter)
                  IN  [secret |-> st.secret,
                       max_mistakes |-> st.max_mistakes,
                       guessed |-> guessed,
                       mistakes |-> mistakes,
                       started_at |-> st.started_at,
                       ended_at |-> NextEndedAt(st, guessed, mistakes, t)]

(***************************************************************************)
(* The state machine: a caller that builds an engine, starts games and     *)
(* submits guesses.                                                        *)
(***************************************************************************)
VARIABLES
    engine,  \* the HangmanEngine object, NoEngine before/without one
    raised,  \* the exception the constructor raised, "None" if none
    pc,      \* "start", "failed" (constructor raised), "ready", "playing"
    state,   \* the caller's current GameState (meaningful when "playing")
    last,    \* the last call: its name, arguments and the state it was given
    code,    \* what play returned, None while it has not returned
    heap,    \* the objects allocated so far: GameState objects and set objects
    held,    \* per game, the reference its caller holds (0 before new_game)
    pre,     \* the heap as it was when the last call was made
    hcall    \* the last call on the heap: game, argument and result references

vars == <<engine, raised, pc, state, last, code, heap, held, pre, hcall>>

\* the variables of the object-level view
hvars == <<heap, held, pre, hcall>>

\* the games played side by side in the object-level view
Games == {1, 2}

EmptyHeap == [objs |-> <<>>, sets |-> <<>>]

NoHeapCall == [op |-> "none", game |-> 0, arg |-> 0, ret |-> 0]

\* nothing allocated yet
HeapIdle ==
    /\ heap = EmptyHeap
    /\ held = [g \in Games |-> 0]
    /\ pre = EmptyHeap
    /\ hcall = NoHeapCall

\* placeholder for `state` before the first new_game
NoState == GameState(<<>>, 0, 0)

NoCall == [op |-> "none", words |-> <<>>, max_mistakes |-> 0,
           state |-> NoState, raw |-> <<>>]

Init ==
    /\ engine = NoEngine
    /\ raised = "None"
    /\ pc = "start"
    /\ state = NoState
    /\ last = NoCall
    /\ code = None
    /\ HeapIdle

\* engine = HangmanEngine(words=words, max_mistakes=max_mistakes)
Construct ==
    /\ pc = "start"
    /\ \E words \in WordLists, max_mistakes \in Budgets :
         LET r == EngineInit(words, max_mistakes)
         IN  /\ engine' = r.engine
             /\ raised' = r.raised
             /\ pc' = IF r.engine.exists THEN "ready" ELSE "failed"
             /\ last' = [NoCall EXCEPT !.op = "init", !.words = words,
                                       !.max_mistakes = max_mistakes]
    /\ UNCHANGED <<state, code>>
    /\ UNCHANGED hvars

\* state = engine.new_game()
NewGame ==
    /\ pc \in {"ready", "playing"}
    /\ engine.exists
    /\ \E i \in 1..Len(engine._words), t \in Times :
         state' = GameState(engine._words[i], engine._max_mistakes, t)
    /\ pc' = "playing"
    /\ last' = [NoCall EXCEPT !.op = "new_game"]
    /\ UNCHANGED <<engine, raised, code>>
    /\ UNCHANGED hvars

\* state = engine.guess(state, raw)
Guess ==
    /\ pc = "playing"
    /\ \E raw \in RawInputs, t \in Times :
         /\ state' = guess(state, raw, t)
         /\ last' = [NoCall EXCEPT !.op = "guess", !.state = state,
                                   !.raw = raw]
    /\ UNCHANGED <<engine, raised, pc, code>>
    /\ UNCHANGED hvars

Next == Construct \/ NewGame \/ Guess

Spec == Init /\ [][Next]_vars

(***************************************************************************)
(* play: the interactive loop.  pc is the place in play: "p_start" before  *)
(* the call, "p_test" at the loop test, "p_input" at input(), "p_end" at   *)
(* the end-of-game screen, "p_returned" after return, "p_raised" when the  *)
(* constructor raised, "p_aborted" when input() raised (Ctrl+C, end of     *)
(* input).                                                                 *)
(***************************************************************************)
PlayInit ==
    /\ engine = NoEngine
    /\ raised = "None"
    /\ pc = "p_start"
    /\ state = NoState
    /\ last = NoCall
    /\ code = None
    /\ HeapIdle

\* words or _DEFAULT_WORDS
WordsOrDefault(words) == IF Truthy(words) THEN words ELSE DefaultWords

\* engine = HangmanEngine(...); state = engine.new_game()
PlayEnter ==
    /\ pc = "p_start"
    /\ \E words \in PlayWordArgs, max_mistakes \in Budgets :
         LET r == EngineInit(WordsOrDefault(words), max_mistakes)
         IN  /\ engine' = r.engine
             /\ raised' = r.raised
             /\ last' = [NoCall EXCEPT !.op = "play", !.words = words,
                                       !.max_mistakes = max_mistakes]
             /\ IF r.engine.exists
                THEN /\ pc' = "p_test"
                     /\ \E i \in 1..Len(r.engine._words), t \in Times :
                          state' = GameState(r.engine._words[i],
                                             r.engine._max_mistakes, t)
                ELSE /\ pc' = "p_raised"
                     /\ state' = state
    /\ UNCHANGED code
    /\ UNCHANGED hvars

\* while not state.finished
LoopCond(st) == ~finished(st)

\* the loop test
PlayLoopTest ==
    /\ pc = "p_test"
    /\ pc' = IF LoopCond(state) THEN "p_input" ELSE "p_end"
    /\ UNCHANGED <<engine, raised, state, last, code>>
    /\ UNCHANGED hvars

\* the line typed is a letter not guessed before
IsFreshLine(st, line) ==
    LET x == Normalize(line)
    IN  Len(x) = 1 /\ IsAlphaChar(x[1]) /\ x \notin st.guessed

\* one pass of the loop body on the line typed: an empty line after strip
\* is skipped (continue), anything else goes to engine.guess; last.op tells
\* what the player typed: nothing, a new letter, or something else
PlayLine(line) ==
    /\ pc = "p_input"
    /\ LET raw == strip(line)
       IN  IF ~Truthy(raw)
           THEN /\ state' = state
                /\ last' = [NoCall EXCEPT !.op = "skip"]
           ELSE /\ \E t \in Times : state' = guess(state, raw, t)
                /\ last' = [NoCall EXCEPT
                              !.op = IF IsFreshLine(state, line)
                                     THEN "fresh" ELSE "other",
                              !.state = state]
    /\ pc' = "p_test"
    /\ UNCHANGED <<engine, raised, code>>
    /\ UNCHANGED hvars

\* raw = input("Your guess: ").strip() and the rest of the loop body
PlayRead == \E line \in PlayLines : PlayLine(line)

\* input() raises KeyboardInterrupt or EOFError: play is left by the exception
PlayInterrupt ==
    /\ pc = "p_input"
    /\ pc' = "p_aborted"
    /\ last' = [NoCall EXCEPT !.op = "interrupt"]
    /\ UNCHANGED <<engine, raised, state, code>>
    /\ UNCHANGED hvars

\* mutant of ExitCode: the two codes swapped
ExitCode_Swapped(st) == IF won(st) THEN 1 ELSE 0

\* return 0 if state.won, else return 1
ExitCode(st) == IF won(st) THEN 0 ELSE 1

\* state.ended_at = state.ended_at or time.time(), on the state object
StampEnd(st, t) ==
    IF st.ended_at # None THEN st ELSE [st EXCEPT !.ended_at = <<t>>]

\* the end-of-game screen and the return
PlayEnd ==
    /\ pc = "p_end"
    /\ \E t \in Times : state' = StampEnd(state, t)
    /\ code' = <<ExitCode(state')>>
    /\ pc' = "p_returned"
    /\ last' = [NoCall EXCEPT !.op = "end", !.state = state]
    /\ UNCHANGED <<engine, raised>>
    /\ UNCHANGED hvars

PlayNext ==
    PlayEnter \/ PlayLoopTest \/ PlayRead \/ PlayInterrupt \/ PlayEnd

SpecPlay == PlayInit /\ [][PlayNext]_vars

\* play under a running program: the loop test and the end-of-game code
\* are executed when control is there (input() may block for ever)
FairSpecPlay ==
    /\ SpecPlay
    /\ WF_vars(PlayLoopTest)
    /\ WF_vars(PlayEnd)

(***************************************************************************)
(* The object-level view: GameState objects and the set objects their      *)
(* guessed fields refer to live in a heap, and a call passes and returns   *)
(* references.  heap.objs[r] is the GameState object r, its guessed field  *)
(* a reference into heap.sets.  Two callers each hold one game.            *)
(***************************************************************************)
\* the objects the heap may hold
MaxObjects == 3

\* the word list of the engine the games share
HeapWords == << <<"a">>, <<" ", "B", "a", "b">> >>

\* the lines the callers submit: right and wrong letters, an uppercase one,
\* one with blanks around it, and two that are no letter
HeapLines == { <<>>, <<"a">>, <<" ", "b", " ">>, <<" ", "X">>, <<"1">> }

\* the GameState value an object stands for, its set dereferenced
View(h, r) ==
    LET o == h.objs[r]
    IN  [secret |-> o.secret,
         max_mistakes |-> o.max_mistakes,
         guessed |-> h.sets[o.guessed],
         mistakes |-> o.mistakes,
         started_at |-> o.started_at,
         ended_at |-> o.ended_at]

\* mutant of CopySet: the copy left out, guessed = state.guessed
CopySet_Alias(sets, r) == [sets |-> sets, ref |-> r]

\* set(state.guessed): a new set object with the elements of the old one
CopySet(sets, r) == [sets |-> Append(sets, sets[r]), ref |-> Len(sets) + 1]

\* GameState(secret=secret, max_mistakes=self._max_mistakes): a new object
\* whose guessed is a new empty set (default_factory=set)
AllocGame(h, secret, max_mistakes, t) ==
    [heap |-> [objs |-> Append(h.objs,
                          [secret |-> secret,
                           max_mistakes |-> max_mistakes,
                           guessed |-> Len(h.sets) + 1,
                           mistakes |-> 0,
                           started_at |-> t,
                           ended_at |-> None]),
               sets |-> Append(h.sets, {})],
     ref |-> Len(h.objs) + 1]

\* HangmanEngine.guess on references: the three early returns hand back the
\* argument itself; the accepted path copies the set, adds the letter to the
\* copy and builds a new GameState object around it
guess_ref(h, r, raw, t) ==
    LET st == View(h, r)
        letter == Normalize(raw)
    IN  IF IsTerminal(st) THEN [heap |-> h, ref |-> r]
        ELSE IF ~IsSingleLetter(letter) THEN [heap |-> h, ref |-> r]
        ELSE IF IsRepeat(st, letter) THEN [heap |-> h, ref |-> r]
        ELSE LET c == CopySet(h.sets, h.objs[r].guessed)
                 sets2 == [c.sets EXCEPT ![c.ref] = AddLetter(@, letter)]
                 mistakes == NextMistakes(st, letter)
             IN  [heap |->
                    [objs |-> Append(h.objs,
                                [secret |-> st.secret,
                                 max_mistakes |-> st.max_mistakes,
                                 guessed |-> c.ref,
                                 mistakes |-> mistakes,
                                 started_at |-> st.started_at,
                                 ended_at |-> NextEndedAt(st, sets2[c.ref],
                                                          mistakes, t)]),
                     sets |-> sets2],
                  ref |-> Len(h.objs) + 1]

\* one engine, built from HeapWords, and no game yet
HeapInit ==
    /\ \E max_mistakes \in Budgets :
         engine = EngineInit(HeapWords, max_mistakes).engine
    /\ raised = "None"
    /\ pc = "h_ready"
    /\ state = NoState
    /\ last = NoCall
    /\ code = None
    /\ HeapIdle

\* held[g] = engine.new_game()
HeapNewGame ==
    /\ Len(heap.objs) < MaxObjects
    /\ \E g \in Games, i \in 1..Len(engine._words), t \in Times :
         LET a == AllocGame(heap, engine._words[i], engine._max_mistakes, t)
         IN  /\ heap' = a.heap
             /\ held' = [held EXCEPT ![g] = a.ref]
             /\ hcall' = [op |-> "new_game", game |-> g, arg |-> 0,
                          ret |-> a.ref]
    /\ pre' = heap
    /\ UNCHANGED <<engine, raised, pc, state, last, code>>

\* held[g] = engine.guess(held[g], raw)
HeapGuess ==
    /\ \E g \in Games, raw \in HeapLines, t \in Times :
         /\ held[g] # 0
         /\ LET a == guess_ref(heap, held[g], raw, t)
            IN  /\ Len(a.heap.objs) <= MaxObjects
                /\ heap' = a.heap
                /\ held' = [held EXCEPT ![g] = a.ref]
                /\ hcall' = [op |-> "guess", game |-> g, arg |-> held[g],
                             ret |-> a.ref]
    /\ pre' = heap
    /\ UNCHANGED <<engine, raised, pc, state, last, code>>

HeapNext == HeapNewGame \/ HeapGuess

SpecHeap == HeapInit /\ [][HeapNext]_vars

(***************************************************************************)
(* Vocabulary of the properties, stated without the engine's own tests.    *)
(***************************************************************************)
\* the normalized forms that are exactly one alphabetic character
OneLetterForms == {<<c>> : c \in LowerLetters \cup CaselessLetters}

\* the distinct letters of a secret, as one-character strings
DistinctLetters(secret) == {<<secret[i]>> : i \in 1..Len(secret)}

\* the guessed letters that do not occur in the secret
WrongGuessed(st) == st.guessed \ DistinctLetters(st.secret)

\* a guess of raw on st is one the engine must reject
Rejected(st, raw) ==
    \/ DistinctLetters(st.secret) \subseteq st.guessed
    \/ st.mistakes >= st.max_mistakes
    \/ Normalize(raw) \notin OneLetterForms
    \/ Normalize(raw) \in st.guessed

\* the last call was guess
Guessed == pc = "playing" /\ last.op = "guess"

(***************************************************************************)
(* C1..C6: guess as a transition on reachable states.                      *)
(***************************************************************************)
\* C1: terminal states are frozen.  In every reachable finished state,
\* guess returns the state unchanged for every raw input; and a guess made
\* on a state whose ended_at is set left guessed and mistakes as they were.
C1_TerminalFrozen ==
    /\ (pc = "playing" /\ finished(state)) =>
          \A raw \in RawInputs, t \in Times : guess(state, raw, t) = state
    /\ (Guessed /\ last.state.ended_at # None) =>
          /\ state.guessed = last.state.guessed
          /\ state.mistakes = last.state.mistakes

\* C1 witness: a letter never guessed before was submitted to a lost game
\* and the state came back unchanged.
C1_Witness ==
    /\ Guessed
    /\ lost(last.state)
    /\ last.state.ended_at # None
    /\ Normalize(last.raw) \in OneLetterForms \ last.state.guessed
    /\ state = last.state

\* C2: invalid input is a silent no-op.  For every reachable state and every
\* raw input whose trimmed, lowercased form is not exactly one alphabetic
\* character, guess returns the state unchanged and nothing is raised.
C2_InvalidNoOp ==
    /\ pc = "playing" =>
          \A raw \in RawInputs, t \in Times :
             Normalize(raw) \notin OneLetterForms => guess(state, raw, t) = state
    /\ (Guessed /\ Normalize(last.raw) \notin OneLetterForms) =>
          state = last.state /\ raised = "None"

\* C2 witness: a non-letter character (a digit, or U+0130 whose lowercase
\* form is two characters) was submitted to a game in progress.
C2_Witness ==
    /\ Guessed
    /\ ~finished(last.state)
    /\ last.state.guessed # {}
    /\ last.raw \in {<<"1">>, <<"U0130">>}
    /\ state = last.state

\* C3: repeat guesses are no-ops.  For every reachable state s and every
\* valid single letter x, guess(guess(s, x), x) = guess(s, x); a letter
\* already in guessed changes neither guessed nor mistakes.
C3_RepeatNoOp ==
    /\ pc = "playing" =>
          \A raw \in RawInputs, t1 \in Times, t2 \in Times :
             Normalize(raw) \in OneLetterForms =>
                LET s1 == guess(state, raw, t1)
                IN  guess(s1, raw, t2) = s1
    /\ (Guessed /\ Normalize(last.raw) \in last.state.guessed) =>
          state = last.state

\* C3 witness: a wrong letter was guessed a second time in a game still in
\* progress.
C3_Witness ==
    /\ Guessed
    /\ ~finished(last.state)
    /\ Normalize(last.raw) \in WrongGuessed(last.state)
    /\ state = last.state

\* C4: in every reachable state 0 <= mistakes <= max_mistakes, and the
\* guess that loses the game leaves mistakes at exactly max_mistakes.
C4_MistakesBounded ==
    /\ pc = "playing" =>
          state.mistakes >= 0 /\ state.mistakes <= state.max_mistakes
    /\ (Guessed /\ ~lost(last.state) /\ lost(state)) =>
          state.mistakes = state.max_mistakes

\* C4 witness: the losing guess of a game with a budget of at least two.
C4_Witness ==
    /\ Guessed
    /\ state.max_mistakes >= 2
    /\ last.state.mistakes = state.max_mistakes - 1
    /\ state.mistakes = state.max_mistakes

\* C5: monotonicity.  For every reachable state s and every raw input,
\* s' = guess(s, raw) has s'.mistakes >= s.mistakes and s.guessed a subset
\* of s'.guessed.
C5_Monotone ==
    /\ pc = "playing" =>
          \A raw \in RawInputs, t \in Times :
             LET s2 == guess(state, raw, t)
             IN  /\ s2.mistakes >= state.mistakes
                 /\ state.guessed \subseteq s2.guessed
    /\ Guessed =>
          /\ state.mistakes >= last.state.mistakes
          /\ last.state.guessed \subseteq state.guessed

\* C5 witness: an accepted guess on a state that already held a right and a
\* wrong letter.
C5_Witness ==
    /\ Guessed
    /\ state # last.state
    /\ last.state.mistakes >= 1
    /\ Cardinality(last.state.guessed) >= 2
    /\ Cardinality(state.guessed) >= 3

\* C6: guess returns a state equal to its input exactly when the guess is
\* rejected (finished state, invalid input, or repeated letter); an accepted
\* guess returns a state whose guessed has gained exactly one new letter.
C6_RejectionIsEquality ==
    /\ pc = "playing" =>
          \A raw \in RawInputs, t \in Times :
             LET s2 == guess(state, raw, t)
             IN  /\ (s2 = state) <=> Rejected(state, raw)
                 /\ ~Rejected(state, raw) =>
                       /\ Normalize(raw) \notin state.guessed
                       /\ s2.guessed = state.guessed \cup {Normalize(raw)}
                       /\ Cardinality(s2.guessed)
                            = Cardinality(state.guessed) + 1
    /\ Guessed => ((state = last.state) <=> Rejected(last.state, last.raw))

\* C6 witness: a right letter that does not finish the game was accepted, so
\* the new state differs from the old one in guessed alone.
C6_Witness ==
    /\ Guessed
    /\ ~Rejected(last.state, last.raw)
    /\ ~finished(state)
    /\ state.mistakes = last.state.mistakes
    /\ state # last.state

(***************************************************************************)
(* C7, C8: construction and new_game.                                      *)
(***************************************************************************)
\* a candidate word passes the filter: trimmed and lowercased it is
\* non-empty and alphabetic
PassesFilter(w) ==
    LET n == lower(strip(w))
    IN  Len(n) >= 1 /\ \A i \in 1..Len(n) : IsAlphaChar(n[i])

\* the last call was the constructor
Constructed == last.op = "init"

\* the constructor's outcome: it fails with the exception named `error`
\* exactly when no supplied word passes the filter (an empty list included),
\* then no engine exists and no game can be started; otherwise it succeeds
ConstructionOutcome(error) ==
    /\ Constructed =>
          LET none == \A i \in 1..Len(last.words) : ~PassesFilter(last.words[i])
          IN  /\ none => raised = error /\ ~engine.exists /\ pc = "failed"
              /\ ~none => raised = "None" /\ engine.exists /\ pc = "ready"
    /\ ~engine.exists => pc \in {"start", "failed"}

\* C7 as stated: construction fails with ConfigurationError when the
\* vocabulary is empty or holds no alphabetic word, and succeeds otherwise.
C7_AsStated == ConstructionOutcome("ConfigurationError")

\* C7 amended: construction fails with ValueError when the vocabulary is
\* empty or no supplied word is alphabetic after trimming and lowercasing;
\* then no engine exists and no game can be started; it succeeds whenever at
\* least one word passes the filter.
C7_ConstructionFails == ConstructionOutcome("ValueError")

\* C7 witness: a non-empty list of non-blank words, none alphabetic, was
\* refused.
C7_Witness ==
    /\ Constructed
    /\ Len(last.words) = 2
    /\ \A i \in 1..Len(last.words) : Truthy(strip(last.words[i]))
    /\ raised # "None"
    /\ pc = "failed"

\* the last call was new_game
Started == pc = "playing" /\ last.op = "new_game"

\* C8: every state new_game returns has a secret that is a word of the
\* filtered vocabulary (trimmed, lowercased, alphabetic, non-empty), an empty
\* guessed set, mistakes = 0 and ended_at unset; the filtered vocabulary
\* holds only supplied words that pass the filter, in their normalized form.
C8_NewGameFresh ==
    /\ Started =>
          /\ state.secret \in Range(engine._words)
          /\ state.secret # <<>>
          /\ \A i \in 1..Len(state.secret) : state.secret[i] \in LowerLetters
          /\ state.guessed = {}
          /\ state.mistakes = 0
          /\ state.ended_at = None
    /\ (Constructed /\ engine.exists) =>
          Range(engine._words) =
             {lower(strip(w)) : w \in {v \in Range(last.words) : PassesFilter(v)}}

\* C8 witness: a game was started whose secret is the trimmed, lowercased
\* form of the one supplied word that passed the filter.
C8_Witness ==
    /\ Started
    /\ Len(engine._words) = 1
    /\ state.secret = <<"b", "a", "b">>

(***************************************************************************)
(* C9, C10: the win path and the loss path.                                *)
(***************************************************************************)
\* C9: win path.  A reachable state whose guessed is exactly the distinct
\* letters of the secret is won, finished, not lost and has mistakes = 0; a
\* state that lacks a letter of the secret is not won; and while only
\* letters of the secret have been guessed, each missing letter of the
\* secret is accepted without a mistake, so the path can be walked in any
\* order.
C9_WinPath ==
    pc = "playing" =>
       LET letters == DistinctLetters(state.secret)
       IN  /\ state.guessed = letters =>
                 /\ won(state)
                 /\ finished(state)
                 /\ ~lost(state)
                 /\ state.mistakes = 0
           /\ ~(letters \subseteq state.guessed) => ~won(state)
           /\ (state.guessed \subseteq letters /\ state.guessed # letters) =>
                 \A x \in letters \ state.guessed, t \in Times :
                    LET s2 == guess(state, x, t)
                    IN  /\ s2.guessed = state.guessed \cup {x}
                        /\ s2.mistakes = 0
                        /\ won(s2) <=> s2.guessed = letters

\* C9 witness: the last distinct letter of a secret with a repeated letter
\* was guessed, after no wrong letter.
C9_Witness ==
    /\ Guessed
    /\ state.secret = <<"b", "a", "b">>
    /\ state.guessed = {<<"a">>, <<"b">>}
    /\ ~won(last.state)
    /\ won(state)

\* C10: loss path.  A reachable state holding max_mistakes distinct wrong
\* letters is lost, finished and has mistakes = max_mistakes; a state
\* holding fewer is not lost; and in a game still in progress every valid
\* letter absent from the secret and not yet guessed adds exactly one
\* mistake.
C10_LossPath ==
    pc = "playing" =>
       LET wrong == Cardinality(WrongGuessed(state))
       IN  /\ wrong = state.max_mistakes =>
                 /\ lost(state)
                 /\ finished(state)
                 /\ state.mistakes = state.max_mistakes
           /\ wrong < state.max_mistakes => ~lost(state)
           /\ ~finished(state) =>
                 \A raw \in RawInputs, t \in Times :
                    (/\ Normalize(raw) \in OneLetterForms
                     /\ Normalize(raw) \notin state.guessed
                     /\ Normalize(raw) \notin DistinctLetters(state.secret)) =>
                       LET s2 == guess(state, raw, t)
                       IN  /\ s2.mistakes = state.mistakes + 1
                           /\ lost(s2) <=>
                                 Cardinality(WrongGuessed(s2))
                                    = state.max_mistakes

\* C10 witness: with a budget of at least two, only wrong letters were
\* guessed and the last of them lost the game.
C10_Witness ==
    /\ Guessed
    /\ state.max_mistakes >= 2
    /\ state.guessed \cap DistinctLetters(state.secret) = {}
    /\ Cardinality(state.guessed) = state.max_mistakes
    /\ ~lost(last.state)
    /\ lost(state)

(***************************************************************************)
(* C12..C14: the budget, the effect of an accepted guess, ended_at.        *)
(***************************************************************************)
\* the game is over by the glossary's terms: every letter of the secret is
\* guessed, or the budget is used up
Over(st) ==
    \/ DistinctLetters(st.secret) \subseteq st.guessed
    \/ st.mistakes >= st.max_mistakes

\* C12: the mistake budget is coerced to at least 1.  For every integer n
\* handed to the constructor the engine's budget is max(1, n); every game
\* has that budget, guess leaves it as it is, and a game just created is
\* not lost.
C12_BudgetCoerced ==
    /\ (Constructed /\ engine.exists) =>
          LET n == last.max_mistakes
              m == engine._max_mistakes
          IN  m >= 1 /\ m >= n /\ m \in {1, n}
    /\ pc = "playing" => state.max_mistakes = engine._max_mistakes
    /\ Guessed => state.max_mistakes = last.state.max_mistakes
    /\ Started => ~lost(state) /\ state.max_mistakes >= 1

\* C12 witness: the constructor was handed a budget below 1 and built an
\* engine with a budget of 1.
C12_Witness ==
    /\ Constructed
    /\ engine.exists
    /\ last.max_mistakes < 1
    /\ engine._max_mistakes = 1

\* C13: effect of an accepted guess.  When the state is not finished and
\* the normalized input x is a single letter not in guessed, guess returns a
\* state whose guessed is the old guessed plus exactly x and whose mistakes
\* is one more if x does not occur in the secret and the same if it does.
C13_AcceptedEffect ==
    /\ pc = "playing" =>
          \A raw \in RawInputs, t \in Times :
             ~Rejected(state, raw) =>
                LET x == Normalize(raw)
                    s2 == guess(state, raw, t)
                IN  /\ s2.guessed = state.guessed \cup {x}
                    /\ x \in DistinctLetters(state.secret) =>
                          s2.mistakes = state.mistakes
                    /\ x \notin DistinctLetters(state.secret) =>
                          s2.mistakes = state.mistakes + 1
    /\ (Guessed /\ ~Rejected(last.state, last.raw)) =>
          /\ state.guessed = last.state.guessed \cup {Normalize(last.raw)}
          /\ state.mistakes - last.state.mistakes =
                IF Normalize(last.raw) \in DistinctLetters(state.secret)
                THEN 0 ELSE 1

\* C13 witness: after a right letter, a wrong letter was accepted and added
\* one mistake.
C13_Witness ==
    /\ Guessed
    /\ ~Rejected(last.state, last.raw)
    /\ last.state.guessed # {}
    /\ last.state.mistakes = 0
    /\ state.mistakes = 1

\* C14: in every reachable state ended_at is set exactly when the state is
\* finished; it is unset in a new game, and the guess that sets it is one
\* made on an unfinished state that it finishes.
C14_EndedIffFinished ==
    /\ pc = "playing" => ((state.ended_at # None) <=> Over(state))
    /\ pc = "playing" => (finished(state) <=> Over(state))
    /\ Started => state.ended_at = None
    /\ (Guessed /\ last.state.ended_at = None /\ state.ended_at # None) =>
          ~Over(last.state) /\ Over(state)

\* C14 witness: the guess that completed the word, after a mistake, stamped
\* ended_at.
C14_Witness ==
    /\ Guessed
    /\ last.state.ended_at = None
    /\ state.ended_at # None
    /\ won(state)
    /\ state.mistakes >= 1

(***************************************************************************)
(* C16..C19: derived views, normalization, counting, one outcome.          *)
(***************************************************************************)
\* C16: derived views agree with the state.  masked with the separators
\* stripped has the length of the secret and shows at each position the
\* secret's character if it is in guessed and the placeholder otherwise;
\* wrong_letters is exactly the guessed letters that do not occur in the
\* secret; masked holds no placeholder exactly when the state is won.
C16_DerivedViews ==
    pc = "playing" =>
       LET m == Unspaced(masked(state))
       IN  /\ Len(m) = Len(state.secret)
           /\ \A i \in 1..Len(state.secret) :
                 m[i] = IF <<state.secret[i]>> \in state.guessed
                        THEN state.secret[i] ELSE "_"
           /\ wrong_letters(state) = WrongGuessed(state)
           /\ ("_" \notin Range(masked(state))) <=> won(state)

\* C16 witness: a secret with a repeated letter, one right and one wrong
\* letter guessed: masked reads b_b and wrong_letters is {x}.
C16_Witness ==
    /\ pc = "playing"
    /\ state.secret = <<"b", "a", "b">>
    /\ state.guessed = {<<"b">>, <<"x">>}
    /\ Unspaced(masked(state)) = <<"b", "_", "b">>
    /\ wrong_letters(state) = {<<"x">>}

\* raw inputs paired with the bare lowercase letter they stand for
SameLetter ==
    { <<<<"A">>, <<"a">>>>, <<<<" ", "b", " ">>, <<"b">>>>,
      <<<<" ", "X">>, <<"x">>>> }

C18_MistakesCountWrong ==
    pc = "playing" =>
       /\ state.mistakes = Cardinality(wrong_letters(state))
       /\ state.mistakes = Cardinality(WrongGuessed(state))
       /\ remaining(state)
            = state.max_mistakes - Cardinality(WrongGuessed(state))

\* C18 witness: two wrong letters and one right letter were guessed.
C18_Witness ==
    /\ pc = "playing"
    /\ Cardinality(state.guessed) = 3
    /\ state.mistakes = 2
    /\ remaining(state) = state.max_mistakes - 2

\* C19: no reachable state is both won and lost.  The guess that completes
\* the word adds no mistake, the guess that uses up the budget does not
\* complete the word, so a finished game has exactly one outcome.
C19_OneOutcome ==
    /\ pc = "playing" => ~(won(state) /\ lost(state))
    /\ (Guessed /\ ~won(last.state) /\ won(state)) =>
          state.mistakes = last.state.mistakes /\ ~lost(state)
    /\ (Guessed /\ ~lost(last.state) /\ lost(state)) =>
          ~won(state) /\ state.mistakes = last.state.mistakes + 1

\* C19 witness: the word was completed with one mistake left before the
\* loss.
C19_Witness ==
    /\ Guessed
    /\ ~won(last.state)
    /\ won(state)
    /\ state.mistakes >= 1
    /\ state.mistakes = state.max_mistakes - 1

(***************************************************************************)
(* C11, C20: the interactive loop.                                         *)
(***************************************************************************)
\* play is at a place where a game exists
InGame == pc \in {"p_test", "p_input", "p_end", "p_returned", "p_aborted"}

\* what holds at each place of play
PlayPlaces ==
    /\ pc = "p_input" => ~Over(state)
    /\ pc \in {"p_end", "p_returned"} => Over(state)
    /\ pc = "p_returned" =>
          /\ code \in {<<0>>, <<1>>}
          /\ code = <<0>> <=> DistinctLetters(state.secret) \subseteq state.guessed
          /\ code = <<1>> <=> state.mistakes >= state.max_mistakes
    /\ pc # "p_returned" => code = None

\* C11: play keeps reading guesses while the state is not finished, leaves
\* the loop only in a finished state, and returns 0 exactly when that state
\* is won and 1 exactly when it is lost.
C11_PlayExit ==
    /\ []PlayPlaces
    /\ [][pc = "p_test" =>
            pc' = IF Over(state) THEN "p_end" ELSE "p_input"]_vars
    /\ [][pc = "p_input" => pc' \in {"p_test", "p_aborted"}]_vars
    /\ [][pc = "p_end" => pc' = "p_returned"]_vars

\* C11 witness: play returned 1 from a lost game in which one right letter
\* had been guessed.
C11_Witness ==
    /\ pc = "p_returned"
    /\ code = <<1>>
    /\ state.mistakes = state.max_mistakes
    /\ state.mistakes >= 2
    /\ state.guessed \cap DistinctLetters(state.secret) # {}

\* the game is finished, or there is no game to finish: play was not
\* called, the constructor raised, or the player broke off at the prompt
Settled ==
    \/ pc \in {"p_start", "p_raised", "p_aborted"}
    \/ InGame /\ Over(state)

\* the player has just submitted a letter not guessed before
FreshSubmitted == pc = "p_test" /\ last.op = "fresh"

\* C20: every game terminates under progress.  The number of accepted
\* guesses never exceeds (distinct letters of the secret) + max_mistakes - 1;
\* a finished game stays finished; and if, as long as the game is not
\* settled, the player again and again submits a letter not yet guessed,
\* then from some point on the game is finished for good.
C20_Terminates ==
    /\ [](InGame =>
            Cardinality(state.guessed) <=
               Cardinality(DistinctLetters(state.secret))
                  + state.max_mistakes - 1)
    /\ [][(InGame /\ Over(state)) => Over(state')]_vars
    /\ []<>(Settled \/ FreshSubmitted) => <>[]Settled

\* C20 witness: a game ended after the largest number of accepted guesses,
\* with a budget of at least two.
C20_Witness ==
    /\ pc = "p_returned"
    /\ state.max_mistakes >= 2
    /\ Cardinality(state.guessed) =
          Cardinality(DistinctLetters(state.secret)) + state.max_mistakes - 1

(***************************************************************************)
(* C15: guess and the objects it is handed.                                *)
(***************************************************************************)
\* the last call on the heap was guess
HeapGuessed == pc = "h_ready" /\ hcall.op = "guess"

\* the references of the GameState objects that existed at the last call
OldObjects == 1..Len(pre.objs)

\* C15: guess never mutates its input and preserves the fixed fields.  After
\* any guess call, accepted or rejected, the object it was handed has the
\* six field values it had before the call; the object returned has the
\* secret, max_mistakes and started_at of the input; every GameState object
\* that existed before the call, the other game's among them, has the field
\* values it had before; and no two GameState objects share a guessed set.
C15_NoMutation ==
    /\ HeapGuessed =>
          /\ View(heap, hcall.arg) = View(pre, hcall.arg)
          /\ View(heap, hcall.ret).secret = View(pre, hcall.arg).secret
          /\ View(heap, hcall.ret).max_mistakes =
                View(pre, hcall.arg).max_mistakes
          /\ View(heap, hcall.ret).started_at =
                View(pre, hcall.arg).started_at
          /\ \A r \in OldObjects : View(heap, r) = View(pre, r)
          /\ \A g \in Games \ {hcall.game} :
                held[g] # 0 =>
                   /\ held[g] \in OldObjects
                   /\ View(heap, held[g]) = View(pre, held[g])
    /\ pc = "h_ready" =>
          \A r1, r2 \in 1..Len(heap.objs) :
             r1 # r2 => heap.objs[r1].guessed # heap.objs[r2].guessed

\* C15 witness: a guess was accepted and returned a new object with one
\* more guessed letter, while the other caller holds a game of its own.
C15_Witness ==
    /\ HeapGuessed
    /\ hcall.ret # hcall.arg
    /\ View(heap, hcall.ret).guessed # View(pre, hcall.arg).guessed
    /\ \E g \in Games \ {hcall.game} : held[g] # 0

=============================================================================
